---- MODULE Spec2Model ----
(***************************************************************************)
(* TallyIX mock WebSocket server (src/src/server_mock/echo_server.py).     *)
(*                                                                         *)
(* One asyncio task per connection runs handle_connection.  A task runs    *)
(* without interruption between two awaits, so every action below is the   *)
(* code between two suspension points: the `async for` that awaits the     *)
(* next frame, and the `await websocket.send(...)` calls.                  *)
(***************************************************************************)
EXTENDS Integers, Sequences, FiniteSets, TLC

VARIABLES
    server_stats,        \* ServerStats: the four process-wide counters
    active_connections,  \* self.active_connections: set of websockets
    connection_stats,    \* self.connection_stats: the keys of the dict (client ids)
    shutdown_event,      \* self._shutdown_event
    phase,               \* where start()/main() are: "listening", "closing", "stopped"
    final_stats,         \* what print_final_stats showed (NoStats before it ran)
    stats,               \* stats[c]: the ConnectionStats object of handler c
    pc,                  \* pc[c]: the await handler c is suspended at
    message,             \* message[c]: the frame handler c is handling
    sending,             \* sending[c]: the argument of the outstanding send
    transport,           \* transport[c]: state of the connection's transport
    inbox,               \* inbox[c]: frames delivered by the transport, not yet iterated
    outbox,              \* outbox[c]: frames the handler sent, with the frame they answer
    inlog,               \* inlog[c]: frames the handler was given, in order
    snaps,               \* snaps[c][k]: transfer fields after frame k was handled
    teardowns,           \* teardowns[c]: how many times the finally block ran
    summary,             \* summary[c]: counters in the session summary log event
    exit_how,            \* exit_how[c]: which branch ended the try statement
    exit_at              \* exit_at[c]: the await the handler was at when it ended

vars == <<server_stats, active_connections, connection_stats, shutdown_event, phase,
          final_stats, stats, pc, message, sending, transport, inbox, outbox, inlog,
          snaps, teardowns, summary, exit_how, exit_at>>

-----------------------------------------------------------------------------
(* Bounds *)

\* connections the server accepts during one run
MaxConn == 2

\* frames all clients together send during one run of the whole server
MaxFrames == 2

\* frames the client sends during one run of a single session
MaxSessionFrames == 3

\* of these, frames outside the hello and chunked-transfer exchanges
MaxRare == 1

Conns == 1..MaxConn

-----------------------------------------------------------------------------
(* JSON values and the frames clients send *)

JStr(s) == [t |-> "str", s |-> s, n |-> 0]

JInt(n) == [t |-> "int", s |-> "", n |-> n]

JNull == [t |-> "null", s |-> "", n |-> 0]

\* a key the decoded object does not have
JAbsent == [t |-> "absent", s |-> "", n |-> 0]

Fields(type, msg_id, content, size) ==
    [type |-> type, msg_id |-> msg_id, content |-> content, size |-> size]

NoFields == Fields(JAbsent, JAbsent, JAbsent, JAbsent)

\* json.loads gave a dict with these recognised keys (truthy iff it has a key)
Dict(f) == [kind |-> "dict", truthy |-> f # NoFields, f |-> f]

\* json.loads gave a value that is not a dict
NonDict(kind, truthy) == [kind |-> kind, truthy |-> truthy, f |-> NoFields]

\* parse_protocol_message gave None
None == [kind |-> "none", truthy |-> FALSE, f |-> NoFields]

HelloText == "{\"type\": \"hello\", \"msg_id\": \"1\", \"content\": \"hi\"}"

BinaryStartText == "{\"type\": \"binary_start\", \"msg_id\": \"2\", \"size\": 2}"

BinaryStartZeroText == "{\"type\": \"binary_start\", \"size\": 0}"

BinaryStartStrText == "{\"type\": \"binary_start\", \"size\": \"2\"}"

ListText == "[1]"

AckText == "{\"type\": \"ack\", \"msg_id\": \"3\"}"

ErrorText == "{\"type\": \"error\", \"content\": \"bad\"}"

PingText == "{\"type\": \"ping\"}"

NoTypeText == "{\"msg_id\": \"4\"}"

EmptyObjectText == "{}"

OpaqueText == "not json"

\* a text of one character that UTF-8 encodes in two bytes
AccentText == "é"

\* the text frames of a hello and of a transfer announcement
KeyTexts == {HelloText, BinaryStartText}

\* the other text frames clients send
RareTexts == {BinaryStartZeroText, BinaryStartStrText, ListText, AckText, ErrorText,
              PingText, NoTypeText, EmptyObjectText, OpaqueText, AccentText}

\* json.loads on the texts above; None where it raises JSONDecodeError
parse_protocol_message(data) ==
    CASE data = HelloText ->
           Dict(Fields(JStr("hello"), JStr("1"), JStr("hi"), JAbsent))
      [] data = BinaryStartText ->
           Dict(Fields(JStr("binary_start"), JStr("2"), JAbsent, JInt(2)))
      [] data = BinaryStartZeroText ->
           Dict(Fields(JStr("binary_start"), JAbsent, JAbsent, JInt(0)))
      [] data = BinaryStartStrText ->
           Dict(Fields(JStr("binary_start"), JAbsent, JAbsent, JStr("2")))
      [] data = ListText -> NonDict("list", TRUE)
      [] data = AckText ->
           Dict(Fields(JStr("ack"), JStr("3"), JAbsent, JAbsent))
      [] data = ErrorText ->
           Dict(Fields(JStr("error"), JAbsent, JStr("bad"), JAbsent))
      [] data = PingText ->
           Dict(Fields(JStr("ping"), JAbsent, JAbsent, JAbsent))
      [] data = NoTypeText ->
           Dict(Fields(JAbsent, JStr("4"), JAbsent, JAbsent))
      [] data = EmptyObjectText -> Dict(NoFields)
      [] OTHER -> None

\* dict.get(key, default)
PyGet(parsed, key, default) ==
    IF parsed.f[key].t = "absent" THEN default ELSE parsed.f[key]

\* how an f-string renders a value
PyStr(v) ==
    CASE v.t = "str" -> v.s
      [] v.t = "int" -> ToString(v.n)
      [] OTHER -> "None"

\* json.dumps of one value
json_dumps(v) ==
    CASE v.t = "str" -> "\"" \o v.s \o "\""
      [] v.t = "int" -> ToString(v.n)
      [] OTHER -> "null"

TextFrame(s) == [kind |-> "text", text |-> s, data |-> <<>>]

BytesFrame(d) == [kind |-> "bytes", text |-> "", data |-> d]

NoFrame == [kind |-> "none", text |-> "", data |-> <<>>]

\* the chunks clients send
Payloads == {<<7>>, <<7, 7>>}

KeyFrames == {TextFrame(s) : s \in KeyTexts} \cup {BytesFrame(d) : d \in Payloads}

\* the rare frames: the other texts, and an empty binary frame
RareFrames == {TextFrame(s) : s \in RareTexts} \cup {BytesFrame(<<>>)}

Frames == KeyFrames \cup RareFrames

\* the frames clients send in the runs with several connections
SystemFrames == {TextFrame(HelloText), TextFrame(ListText), BytesFrame(<<7>>)}

\* the frames clients send in the runs that follow the sessions' lifecycle
LifecycleFrames == {TextFrame(ListText), BytesFrame(<<7>>)}

\* len(message) of a str, len(data) of bytes
PyLen(m) == IF m.kind = "bytes" THEN Len(m.data) ELSE Len(m.text)

-----------------------------------------------------------------------------
(* ConnectionStats and ServerStats *)

\* websocket.remote_address of the c-th accepted connection
remote_address(c) == [host |-> "127.0.0.1", port |-> 50000 + c]

_get_client_id(c) ==
    remote_address(c).host \o ":" \o ToString(remote_address(c).port)

ConnectionStats(client_id) ==
    [client_id |-> client_id,
     messages_received |-> 0,
     messages_sent |-> 0,
     bytes_received |-> 0,
     bytes_sent |-> 0,
     binary_transfers_completed |-> 0,
     current_binary_expected |-> JInt(0),
     current_binary_received |-> 0]

ServerStats ==
    [total_connections |-> 0,
     active_connections |-> 0,
     total_messages |-> 0,
     total_bytes |-> 0]

\* the local `stats` of a handler that has not started
NoStats == ConnectionStats("")

\* CountReceived that counts every frame toward the transfer as well
CountReceived_AsChunk(st, n) ==
    [st EXCEPT !.messages_received = @ + 1, !.bytes_received = @ + n,
               !.current_binary_received = @ + n]

\* stats.messages_received += 1; stats.bytes_received += len(...)
CountReceived(st, n) ==
    [st EXCEPT !.messages_received = @ + 1, !.bytes_received = @ + n]

\* CountSent without the message count: only the bytes are added
CountSent_BytesOnly(st, n) ==
    [st EXCEPT !.bytes_sent = @ + n]

\* CountSent that counts the reply twice
CountSent_Twice(st, n) ==
    [st EXCEPT !.messages_sent = @ + 2, !.bytes_sent = @ + n + n]

\* CountSent without the byte count: only the message is added
CountSent_MessagesOnly(st, n) ==
    [st EXCEPT !.messages_sent = @ + 1]

\* stats.messages_sent += 1; stats.bytes_sent += len(...)
CountSent(st, n) ==
    [st EXCEPT !.messages_sent = @ + 1, !.bytes_sent = @ + n]

\* CountTotals without the byte count
CountTotals_MessagesOnly(ss, n) ==
    [ss EXCEPT !.total_messages = @ + 1]

\* self.server_stats.total_messages += 1; self.server_stats.total_bytes += len(...)
CountTotals(ss, n) ==
    [ss EXCEPT !.total_messages = @ + 1, !.total_bytes = @ + n]

\* self.server_stats.total_connections += 1; self.server_stats.active_connections += 1
CountConnect(ss) ==
    [ss EXCEPT !.total_connections = @ + 1, !.active_connections = @ + 1]

\* CountDisconnect that leaves the counter alone
CountDisconnect_None(ss) == ss

\* self.server_stats.active_connections -= 1
CountDisconnect(ss) ==
    [ss EXCEPT !.active_connections = @ - 1]

\* `stats.current_binary_expected > 0`
ExpectedPositive(st) ==
    st.current_binary_expected.t = "int" /\ st.current_binary_expected.n > 0

\* TrackBinary with the completion test `>` in place of `>=`
TrackBinary_Greater(st, n) ==
    LET got == [st EXCEPT !.current_binary_received = @ + n] IN
    IF ExpectedPositive(got)
    THEN IF got.current_binary_received > got.current_binary_expected.n
         THEN [got EXCEPT !.binary_transfers_completed = @ + 1,
                          !.current_binary_expected = JInt(0),
                          !.current_binary_received = 0]
         ELSE got
    ELSE got

\* TrackBinary with the completion test `==` in place of `>=`
TrackBinary_Equal(st, n) ==
    LET got == [st EXCEPT !.current_binary_received = @ + n] IN
    IF ExpectedPositive(got)
    THEN IF got.current_binary_received = got.current_binary_expected.n
         THEN [got EXCEPT !.binary_transfers_completed = @ + 1,
                          !.current_binary_expected = JInt(0),
                          !.current_binary_received = 0]
         ELSE got
    ELSE got

\* TrackBinary that leaves the expected size in place on completion
TrackBinary_KeepExpected(st, n) ==
    LET got == [st EXCEPT !.current_binary_received = @ + n] IN
    IF ExpectedPositive(got)
    THEN IF got.current_binary_received >= got.current_binary_expected.n
         THEN [got EXCEPT !.binary_transfers_completed = @ + 1,
                          !.current_binary_received = 0]
         ELSE got
    ELSE got

\* TrackBinary that counts the completion and resets nothing
TrackBinary_NoReset(st, n) ==
    LET got == [st EXCEPT !.current_binary_received = @ + n] IN
    IF ExpectedPositive(got)
    THEN IF got.current_binary_received >= got.current_binary_expected.n
         THEN [got EXCEPT !.binary_transfers_completed = @ + 1]
         ELSE got
    ELSE got

\* TrackBinary without the test `expected > 0`
TrackBinary_Unguarded(st, n) ==
    LET got == [st EXCEPT !.current_binary_received = @ + n] IN
    IF got.current_binary_received >= got.current_binary_expected.n
    THEN [got EXCEPT !.binary_transfers_completed = @ + 1,
                     !.current_binary_expected = JInt(0),
                     !.current_binary_received = 0]
    ELSE got

\* the transfer bookkeeping of handle_binary_message for a chunk of n bytes
TrackBinary(st, n) ==
    LET got == [st EXCEPT !.current_binary_received = @ + n] IN
    IF ExpectedPositive(got)
    THEN IF got.current_binary_received >= got.current_binary_expected.n
         THEN [got EXCEPT !.binary_transfers_completed = @ + 1,
                          !.current_binary_expected = JInt(0),
                          !.current_binary_received = 0]
         ELSE got
    ELSE got

\* AnnounceBinary that keeps the bytes received so far
AnnounceBinary_KeepReceived(st, parsed) ==
    [st EXCEPT !.current_binary_expected = PyGet(parsed, "size", JInt(0))]

\* the binary_start branch: take the announced size, restart the byte count
AnnounceBinary(st, parsed) ==
    [st EXCEPT !.current_binary_expected = PyGet(parsed, "size", JInt(0)),
               !.current_binary_received = 0]

\* whether f"{binary_size:,}" formats: it raises for a str and for None
FormatsWithComma(v) == v.t = "int"

\* create_ack_message with the two ids exchanged
create_ack_message_IdsSwapped(msg_id, content) ==
    "{\"type\": \"ack\", \"msg_id\": " \o json_dumps(msg_id)
    \o ", \"content\": " \o json_dumps(JStr(content))
    \o ", \"original_msg_id\": " \o json_dumps(JStr("ack_" \o PyStr(msg_id))) \o "}"

create_ack_message(msg_id, content) ==
    "{\"type\": \"ack\", \"msg_id\": " \o json_dumps(JStr("ack_" \o PyStr(msg_id)))
    \o ", \"content\": " \o json_dumps(JStr(content))
    \o ", \"original_msg_id\": " \o json_dumps(msg_id) \o "}"

\* the ack handle_text_message builds after the hello echo was sent
HelloAck(st, msg) ==
    create_ack_message(PyGet(parse_protocol_message(msg.text), "msg_id", JStr("unknown")),
                       "Hello received from " \o st.client_id)

\* What handle_text_message does with `message` up to its first await, the
\* received counters already updated: the branch it takes, the stats it
\* leaves, and whether it raised ("fault") or reached a send ("send_hello",
\* "send_echo").
TextDispatch(st, msg) ==
    LET parsed == parse_protocol_message(msg.text) IN
    IF parsed.truthy
    THEN IF parsed.kind # "dict"
         THEN [branch |-> "none", at |-> "fault", st |-> st]
         ELSE LET msg_type == PyGet(parsed, "type", JStr("unknown")) IN
              CASE msg_type = JStr("hello") ->
                     [branch |-> "hello", at |-> "send_hello", st |-> st]
                [] msg_type = JStr("binary_start") ->
                     [branch |-> "binary_start",
                      at |-> IF FormatsWithComma(PyGet(parsed, "size", JInt(0)))
                             THEN "send_echo" ELSE "fault",
                      st |-> AnnounceBinary(st, parsed)]
                [] msg_type = JStr("ack") ->
                     [branch |-> "ack", at |-> "send_echo", st |-> st]
                [] msg_type = JStr("error") ->
                     [branch |-> "error", at |-> "send_echo", st |-> st]
                [] OTHER -> [branch |-> "unknown", at |-> "send_echo", st |-> st]
    ELSE [branch |-> "opaque_text", at |-> "send_echo", st |-> st]

\* ReplyAt with the two sends of the hello branch exchanged
ReplyAt_AckFirst(at, st, msg) ==
    IF at = "send_hello" THEN TextFrame(HelloAck(st, msg)) ELSE msg

\* The argument of the send at `at`: the frame itself for an echo, the ack
\* for the second send of the hello branch.
ReplyAt(at, st, msg) ==
    IF at = "send_ack" THEN TextFrame(HelloAck(st, msg)) ELSE msg

\* the same for handle_binary_message, which never raises before its send
BinaryDispatch(st, msg) ==
    [branch |-> "binary", at |-> "send_echo", st |-> TrackBinary(st, PyLen(msg))]

\* the transfer fields of a ConnectionStats
TransferOf(st) ==
    [completed |-> st.binary_transfers_completed,
     expected |-> st.current_binary_expected,
     received |-> st.current_binary_received]

\* the counters the session summary event prints
SummaryOf(st) ==
    [logged |-> TRUE,
     messages_received |-> st.messages_received,
     messages_sent |-> st.messages_sent,
     bytes_received |-> st.bytes_received,
     bytes_sent |-> st.bytes_sent,
     binary_transfers_completed |-> st.binary_transfers_completed]

NoSummary ==
    [logged |-> FALSE, messages_received |-> 0, messages_sent |-> 0,
     bytes_received |-> 0, bytes_sent |-> 0, binary_transfers_completed |-> 0]

-----------------------------------------------------------------------------
(* State after TallyIXMockServer.__init__ and start() reaching its wait *)

Init ==
    /\ server_stats = ServerStats
    /\ active_connections = {}
    /\ connection_stats = {}
    /\ shutdown_event = FALSE
    /\ phase = "listening"
    /\ final_stats = [printed |-> FALSE, stats |-> ServerStats]
    /\ stats = [c \in Conns |-> NoStats]
    /\ pc = [c \in Conns |-> "idle"]
    /\ message = [c \in Conns |-> NoFrame]
    /\ sending = [c \in Conns |-> NoFrame]
    /\ transport = [c \in Conns |-> "none"]
    /\ inbox = [c \in Conns |-> <<>>]
    /\ outbox = [c \in Conns |-> <<>>]
    /\ inlog = [c \in Conns |-> <<>>]
    /\ snaps = [c \in Conns |-> <<>>]
    /\ teardowns = [c \in Conns |-> 0]
    /\ summary = [c \in Conns |-> NoSummary]
    /\ exit_how = [c \in Conns |-> "none"]
    /\ exit_at = [c \in Conns |-> "none"]

RECURSIVE SumOver(_, _)
\* the sum of f[c] over the connections in S
SumOver(f, S) ==
    IF S = {} THEN 0
    ELSE LET c == CHOOSE x \in S : TRUE IN f[c] + SumOver(f, S \ {c})

\* rare frames of connection c delivered so far
RareCount(c) ==
    Cardinality({k \in 1..Len(inlog[c]) : inlog[c][k] \in RareFrames})
    + Cardinality({k \in 1..Len(inbox[c]) : inbox[c][k] \in RareFrames})

\* frames the transport has delivered so far, over all connections
FramesDelivered == SumOver([c \in Conns |-> Len(inlog[c]) + Len(inbox[c])], Conns)

RareDelivered == SumOver([c \in Conns |-> RareCount(c)], Conns)

SendPcs == {"send_hello", "send_ack", "send_echo"}

\* the handler of c is between its entry code and its finally block
IsOpen(c) == pc[c] \in {"recv"} \cup SendPcs

-----------------------------------------------------------------------------
(* The two ways a step of handle_connection ends *)

\* The step ends at an await: `at` is "recv" or the send reached, `snd` the
\* frame passed to send.
Suspend(c, st, ss, at, msg, snd) ==
    /\ stats' = [stats EXCEPT ![c] = st]
    /\ server_stats' = ss
    /\ pc' = [pc EXCEPT ![c] = at]
    /\ message' = [message EXCEPT ![c] = msg]
    /\ sending' = [sending EXCEPT ![c] = snd]
    /\ UNCHANGED <<active_connections, connection_stats, teardowns, summary, exit_how, exit_at>>

\* Discard emptying the set
Discard_All(set, c) == {}

\* self.active_connections.discard(websocket)
Discard(set, c) == set \ {c}

\* DeleteKey that leaves the entry in the lookup
DeleteKey_Keep(keys, client_id) == keys

\* del self.connection_stats[client_id]
DeleteKey(keys, client_id) == keys \ {client_id}

\* Teardown with the cleanup in the ConnectionClosed path only: a handler
\* that raised returns without it
Teardown_NotAfterFault(c, st, ss, how) ==
    /\ exit_how' = [exit_how EXCEPT ![c] = how]
    /\ exit_at' = [exit_at EXCEPT ![c] = pc[c]]
    /\ active_connections' = IF how = "error" THEN active_connections
                             ELSE Discard(active_connections, c)
    /\ server_stats' = IF how = "error" THEN ss ELSE CountDisconnect(ss)
    /\ summary' = [summary EXCEPT ![c] = IF how = "error" THEN @ ELSE SummaryOf(st)]
    /\ connection_stats' = IF how = "error" THEN connection_stats
                           ELSE DeleteKey(connection_stats, st.client_id)
    /\ teardowns' = [teardowns EXCEPT ![c] = IF how = "error" THEN @ ELSE @ + 1]
    /\ stats' = [stats EXCEPT ![c] = st]
    /\ pc' = [pc EXCEPT ![c] = "done"]
    /\ message' = [message EXCEPT ![c] = NoFrame]
    /\ sending' = [sending EXCEPT ![c] = NoFrame]

\* The step leaves the try statement: the except clause `how` names, then
\* the finally block, then the coroutine returns.
Teardown(c, st, ss, how) ==
    /\ exit_how' = [exit_how EXCEPT ![c] = how]
    /\ exit_at' = [exit_at EXCEPT ![c] = pc[c]]
    /\ active_connections' = Discard(active_connections, c)
    /\ server_stats' = CountDisconnect(ss)
    /\ summary' = [summary EXCEPT ![c] = SummaryOf(st)]
    /\ connection_stats' = DeleteKey(connection_stats, st.client_id)
    /\ teardowns' = [teardowns EXCEPT ![c] = @ + 1]
    /\ stats' = [stats EXCEPT ![c] = st]
    /\ pc' = [pc EXCEPT ![c] = "done"]
    /\ message' = [message EXCEPT ![c] = NoFrame]
    /\ sending' = [sending EXCEPT ![c] = NoFrame]

-----------------------------------------------------------------------------
(* Steps of handle_connection *)

\* websockets accepts the next connection and starts handle_connection,
\* which runs to the `async for`.
Connect(c) ==
    /\ phase = "listening"
    /\ pc[c] = "idle"
    /\ \A d \in Conns : d < c => pc[d] # "idle"
    /\ stats' = [stats EXCEPT ![c] = ConnectionStats(_get_client_id(c))]
    /\ connection_stats' = connection_stats \cup {_get_client_id(c)}
    /\ active_connections' = active_connections \cup {c}
    /\ server_stats' = CountConnect(server_stats)
    /\ pc' = [pc EXCEPT ![c] = "recv"]
    /\ transport' = [transport EXCEPT ![c] = "open"]
    /\ UNCHANGED <<shutdown_event, phase, final_stats, message, sending, inbox, outbox,
                   inlog, snaps, teardowns, summary, exit_how, exit_at>>

\* The `async for` yields the next frame; the handler runs to its first send,
\* or raises on the way, and then websockets closes the connection the
\* handler returned from.
Receive(c) ==
    /\ pc[c] = "recv"
    /\ inbox[c] # <<>>
    /\ LET msg == Head(inbox[c])
           st == CountReceived(stats[c], PyLen(msg))
           ss == CountTotals(server_stats, PyLen(msg))
           out == IF msg.kind = "bytes" THEN BinaryDispatch(st, msg)
                  ELSE TextDispatch(st, msg)
       IN /\ inbox' = [inbox EXCEPT ![c] = Tail(@)]
          /\ inlog' = [inlog EXCEPT ![c] = Append(@, msg)]
          /\ snaps' = [snaps EXCEPT ![c] = Append(@, TransferOf(out.st))]
          /\ IF out.at = "fault"
             THEN /\ Teardown(c, out.st, ss, "error")
                  /\ transport' = [transport EXCEPT ![c] = "closed_by_server"]
             ELSE /\ Suspend(c, out.st, ss, out.at, msg, ReplyAt(out.at, out.st, msg))
                  /\ UNCHANGED transport
    /\ UNCHANGED <<shutdown_event, phase, final_stats, outbox>>

\* The `async for` finds the connection closed: it ends on a normal closure
\* and raises ConnectionClosed otherwise.
ReceiveClosed(c) ==
    /\ pc[c] = "recv"
    /\ inbox[c] = <<>>
    /\ transport[c] \in {"closed_ok", "closed_error", "going_away"}
    /\ Teardown(c, stats[c], server_stats,
                IF transport[c] = "closed_error" THEN "closed" ELSE "end")
    /\ UNCHANGED <<shutdown_event, phase, final_stats, transport, inbox, outbox,
                   inlog, snaps>>

\* An outstanding send returns: the reply is counted, and the handler goes on
\* to the ack (after the hello echo) or back to the `async for`.
SendDone(c) ==
    /\ pc[c] \in SendPcs
    /\ transport[c] = "open"
    /\ outbox' = [outbox EXCEPT ![c] =
                    Append(@, [frame |-> Len(inlog[c]), msg |-> sending[c]])]
    /\ LET st == CountSent(stats[c], PyLen(sending[c])) IN
       IF pc[c] = "send_hello"
       THEN Suspend(c, st, server_stats, "send_ack", message[c],
                    ReplyAt("send_ack", st, message[c]))
       ELSE Suspend(c, st, server_stats, "recv", NoFrame, NoFrame)
    /\ UNCHANGED <<shutdown_event, phase, final_stats, transport, inbox, inlog, snaps>>

\* An outstanding send raises ConnectionClosed.
SendFail(c) ==
    /\ pc[c] \in SendPcs
    /\ transport[c] # "open"
    /\ Teardown(c, stats[c], server_stats, "closed")
    /\ UNCHANGED <<shutdown_event, phase, final_stats, transport, inbox, outbox,
                   inlog, snaps>>

-----------------------------------------------------------------------------
(* The peers and the transport *)

\* The transport delivers the next frame the client of c sent; it holds one
\* frame for the handler and delivers the next when that one was taken.
ClientSend(c, f, limit) ==
    /\ transport[c] = "open"
    /\ inbox[c] = <<>>
    /\ FramesDelivered < limit
    /\ f \in RareFrames => RareDelivered < MaxRare
    /\ inbox' = [inbox EXCEPT ![c] = Append(@, f)]
    /\ UNCHANGED <<server_stats, active_connections, connection_stats, shutdown_event,
                   phase, final_stats, stats, pc, message, sending, transport, outbox,
                   inlog, snaps, teardowns, summary, exit_how, exit_at>>

\* The connection closes: a close handshake, or the transport breaks.
ClientClose(c, how) ==
    /\ transport[c] = "open"
    /\ transport' = [transport EXCEPT ![c] = how]
    /\ UNCHANGED <<server_stats, active_connections, connection_stats, shutdown_event,
                   phase, final_stats, stats, pc, message, sending, inbox, outbox,
                   inlog, snaps, teardowns, summary, exit_how, exit_at>>

-----------------------------------------------------------------------------
(* Shutdown *)

\* signal_handler calls server.shutdown()
Shutdown ==
    /\ phase = "listening"
    /\ ~shutdown_event
    /\ shutdown_event' = TRUE
    /\ UNCHANGED <<server_stats, active_connections, connection_stats, phase,
                   final_stats, stats, pc, message, sending, transport, inbox, outbox,
                   inlog, snaps, teardowns, summary, exit_how, exit_at>>

\* start() wakes from the wait and leaves the `async with`: the server stops
\* listening and closes the connections that are open (close code 1001).
StopServing ==
    /\ phase = "listening"
    /\ shutdown_event
    /\ phase' = "closing"
    /\ transport' = [c \in Conns |->
                       IF transport[c] = "open" THEN "going_away" ELSE transport[c]]
    /\ UNCHANGED <<server_stats, active_connections, connection_stats, shutdown_event,
                   final_stats, stats, pc, message, sending, inbox, outbox, inlog,
                   snaps, teardowns, summary, exit_how, exit_at>>

\* HandlersReturned without the wait
HandlersReturned_NoWait == TRUE

\* every handler task has finished: the `async with` waits for them on its
\* way out, and asyncio.run completes the tasks that are left before it
\* returns
HandlersReturned == \A c \in Conns : ~IsOpen(c)

\* The handlers have returned; asyncio.run returns and main's finally block
\* prints the final statistics.
PrintFinalStats ==
    /\ phase = "closing"
    /\ HandlersReturned
    /\ phase' = "stopped"
    /\ final_stats' = [printed |-> TRUE, stats |-> server_stats]
    /\ UNCHANGED <<server_stats, active_connections, connection_stats, shutdown_event,
                   stats, pc, message, sending, transport, inbox, outbox, inlog,
                   snaps, teardowns, summary, exit_how, exit_at>>

-----------------------------------------------------------------------------

Next ==
    \/ \E c \in Conns : Connect(c)
    \/ \E c \in Conns : Receive(c)
    \/ \E c \in Conns : ReceiveClosed(c)
    \/ \E c \in Conns : SendDone(c)
    \/ \E c \in Conns : SendFail(c)
    \/ \E c \in Conns, f \in SystemFrames : ClientSend(c, f, MaxFrames)
    \/ \E c \in Conns, how \in {"closed_ok", "closed_error"} : ClientClose(c, how)
    \/ Shutdown
    \/ StopServing
    \/ PrintFinalStats

Spec == Init /\ [][Next]_vars

\* a step of the task that runs handle_connection for c
HandlerStep(c) == Receive(c) \/ ReceiveClosed(c) \/ SendDone(c) \/ SendFail(c)

\* The whole server, with clients that send a chunk or the frame the handler
\* raises on.
LifecycleNext ==
    \/ \E c \in Conns : Connect(c)
    \/ \E c \in Conns : Receive(c)
    \/ \E c \in Conns : ReceiveClosed(c)
    \/ \E c \in Conns : SendDone(c)
    \/ \E c \in Conns : SendFail(c)
    \/ \E c \in Conns, f \in LifecycleFrames : ClientSend(c, f, MaxFrames)
    \/ \E c \in Conns, how \in {"closed_ok", "closed_error"} : ClientClose(c, how)
    \/ Shutdown
    \/ StopServing
    \/ PrintFinalStats

\* The event loop runs every task that is ready: a handler whose await can
\* return is resumed.
FairSpec ==
    Init /\ [][LifecycleNext]_vars /\ \A c \in Conns : WF_vars(HandlerStep(c))

\* One session on its own: the first connection, every frame of the catalogue.
SessionNext ==
    \/ Connect(1)
    \/ Receive(1)
    \/ ReceiveClosed(1)
    \/ SendDone(1)
    \/ SendFail(1)
    \/ \E f \in Frames : ClientSend(1, f, MaxSessionFrames)
    \/ \E how \in {"closed_ok", "closed_error"} : ClientClose(1, how)

SessionSpec == Init /\ [][SessionNext]_vars

-----------------------------------------------------------------------------
(* Vocabulary of the properties *)

\* the frame decodes to a record whose type is "hello"
IsHello(f) ==
    /\ f.kind = "text"
    /\ parse_protocol_message(f.text).kind = "dict"
    /\ parse_protocol_message(f.text).f.type = JStr("hello")

\* the frame decodes to a record whose type is "binary_start" and that
\* declares size n (0 when the record has no size)
IsBinaryStart(f, n) ==
    /\ f.kind = "text"
    /\ parse_protocol_message(f.text).kind = "dict"
    /\ parse_protocol_message(f.text).f.type = JStr("binary_start")
    /\ \/ parse_protocol_message(f.text).f.size = JInt(n)
       \/ n = 0 /\ parse_protocol_message(f.text).f.size = JAbsent

\* the frames session c sent in reply to its k-th inbound frame, in order
RepliesTo(c, k) ==
    LET mine == SelectSeq(outbox[c], LAMBDA e : e.frame = k)
    IN [i \in 1..Len(mine) |-> mine[i].msg]

\* session c is through with its k-th frame: it went on to await the next
Handled(c, k) ==
    k < Len(inlog[c]) \/ (k = Len(inlog[c]) /\ pc[c] = "recv")

\* s is a prefix of t
IsPrefix(s, t) ==
    Len(s) <= Len(t) /\ \A i \in 1..Len(s) : s[i] = t[i]

\* number of hello frames session c was given
Hellos(c) == Cardinality({k \in 1..Len(inlog[c]) : IsHello(inlog[c][k])})

\* the transfer fields of session c before its k-th frame
SnapBefore(c, k) ==
    IF k = 1 THEN TransferOf(NoStats) ELSE snaps[c][k - 1]

RECURSIVE ChunkBytes(_, _, _)
\* total length of frames i..j of session c
ChunkBytes(c, i, j) ==
    IF i > j THEN 0 ELSE Len(inlog[c][i].data) + ChunkBytes(c, i + 1, j)

\* frames i+1..j of session c are binary frames whose lengths sum to n
ChunksSumTo(c, i, j, n) ==
    /\ \A k \in (i + 1)..j : inlog[c][k].kind = "bytes"
    /\ ChunkBytes(c, i + 1, j) = n

-----------------------------------------------------------------------------
(* C1 *)

\* the acknowledgment record for msg_id m with free text `content`, serialized
AckRecord(m, content) ==
    TextFrame("{\"type\": \"ack\", \"msg_id\": \"ack_" \o m \o "\", \"content\": \""
              \o content \o "\", \"original_msg_id\": \"" \o m \o "\"}")

\* the msg_id of a hello record that has a string msg_id
HasMsgId(f) == parse_protocol_message(f.text).f.msg_id.t = "str"

MsgIdOf(f) == parse_protocol_message(f.text).f.msg_id.s

\* the texts an acknowledgment's content may be
AckContents == {"Hello received from " \o _get_client_id(c) : c \in Conns}

\* the reply pairs the claim allows for hello frame f
HelloReplies(f) == {<<f, AckRecord(MsgIdOf(f), t)>> : t \in AckContents}

\* C1: for every text frame that decodes to a record with type "hello" and
\* msg_id M, the session's replies to it are, in order, the frame verbatim and
\* then the ack record with msg_id "ack_"+M and original_msg_id M: exactly
\* these two once the session has gone on to await the next frame, and a
\* prefix of them while it is still sending or once the transport has closed
\* under it.
C1_HelloEchoThenAck ==
    \A c \in Conns : \A k \in 1..Len(inlog[c]) :
        (IsHello(inlog[c][k]) /\ HasMsgId(inlog[c][k])) =>
            /\ \E pair \in HelloReplies(inlog[c][k]) : IsPrefix(RepliesTo(c, k), pair)
            /\ Handled(c, k) => Len(RepliesTo(c, k)) = 2

C1_Witness ==
    \E c \in Conns : \E k \in 1..Len(inlog[c]) :
        /\ IsHello(inlog[c][k]) /\ HasMsgId(inlog[c][k])
        /\ Handled(c, k)
        /\ RepliesTo(c, k) \in HelloReplies(inlog[c][k])

-----------------------------------------------------------------------------
(* C2 *)

\* session c ended in a send that raised ConnectionClosed
SendFailed(c) == exit_how[c] = "closed" /\ exit_at[c] \in SendPcs

\* C2: for every inbound frame that is not a hello, the session sends exactly
\* one reply, identical to the frame: never anything else, and exactly that
\* once it is through with the frame, unless the transport closed before the
\* reply could be sent.
C2_NonHelloEchoedOnce ==
    \A c \in Conns : \A k \in 1..Len(inlog[c]) :
        ~IsHello(inlog[c][k]) =>
            /\ IsPrefix(RepliesTo(c, k), <<inlog[c][k]>>)
            /\ (Handled(c, k) \/ (pc[c] = "done" /\ ~SendFailed(c)))
                   => RepliesTo(c, k) = <<inlog[c][k]>>

-----------------------------------------------------------------------------
(* C3 *)

\* C3: however the session ends, the counters of its session summary satisfy
\* messages_sent - messages_received = number of hello frames received.
C3_SentMinusReceivedIsHellos ==
    \A c \in Conns :
        summary[c].logged =>
            summary[c].messages_sent - summary[c].messages_received = Hellos(c)

\* replies to the frame in hand that a session ending at `at` by `how` has
\* not counted as sent
Owed(how, at) ==
    CASE how = "error" -> 1
      [] at = "send_hello" -> 2
      [] at \in {"send_ack", "send_echo"} -> 1
      [] OTHER -> 0

\* C3 as amended: the counters of the session summary satisfy
\* messages_sent - messages_received = hellos - owed, where owed is 0 when the
\* session ended while awaiting a frame, and otherwise the number of replies
\* to the frame in hand that were not sent: 2 when the echo of a hello failed,
\* 1 when another send failed or the handler raised.
C3_SentMinusReceivedAtTeardown ==
    \A c \in Conns :
        summary[c].logged =>
            summary[c].messages_sent - summary[c].messages_received
                = Hellos(c) - Owed(exit_how[c], exit_at[c])

C3_Witness ==
    \E c \in Conns :
        /\ summary[c].logged
        /\ Hellos(c) >= 1
        /\ exit_how[c] \in {"end", "closed"} /\ exit_at[c] = "recv"
        /\ summary[c].messages_sent = summary[c].messages_received + Hellos(c)

-----------------------------------------------------------------------------
(* C4 *)

\* C4: for every declared size S >= 0 and every split of S bytes into binary
\* frames, after a binary_start announcing S followed by binary frames whose
\* lengths sum to exactly S, binary_transfers_completed is one more than
\* before the announcement and the expected and received sizes are both 0.
C4_ExactTransferCompletes ==
    \A c \in Conns : \A i \in 1..Len(inlog[c]) : \A j \in i..Len(inlog[c]) :
        \A n \in 0..ChunkBytes(c, i + 1, j) :
            (IsBinaryStart(inlog[c][i], n) /\ ChunksSumTo(c, i, j, n)) =>
                snaps[c][j] = [completed |-> SnapBefore(c, i).completed + 1,
                               expected |-> JInt(0), received |-> 0]

\* C4 as amended: the same for every declared size S > 0.
C4_ExactPositiveTransferCompletes ==
    \A c \in Conns : \A i \in 1..Len(inlog[c]) : \A j \in i..Len(inlog[c]) :
        \A n \in 1..ChunkBytes(c, i + 1, j) :
            (IsBinaryStart(inlog[c][i], n) /\ ChunksSumTo(c, i, j, n)) =>
                snaps[c][j] = [completed |-> SnapBefore(c, i).completed + 1,
                               expected |-> JInt(0), received |-> 0]

\* a transfer of two bytes completed by two chunks of one byte
C4_Witness ==
    \E c \in Conns : \E i \in 1..Len(inlog[c]) :
        /\ i + 2 <= Len(inlog[c])
        /\ IsBinaryStart(inlog[c][i], 2)
        /\ ChunksSumTo(c, i, i + 2, 2)
        /\ snaps[c][i + 2].completed = SnapBefore(c, i).completed + 1

-----------------------------------------------------------------------------
(* C5 *)

\* the k-th frame of session c is a binary frame that takes the bytes
\* received past the size of the transfer in progress
Overshoots(c, k) ==
    /\ inlog[c][k].kind = "bytes"
    /\ SnapBefore(c, k).expected.t = "int"
    /\ SnapBefore(c, k).expected.n > 0
    /\ SnapBefore(c, k).received + Len(inlog[c][k].data) > SnapBefore(c, k).expected.n

\* C5: when a transfer is in progress and a binary frame makes the bytes
\* received exceed the bytes expected, the transfer completes on that frame:
\* binary_transfers_completed increases by exactly 1 and the expected and
\* received sizes are both reset to 0, so no excess is carried over.
C5_OvershootCompletes ==
    \A c \in Conns : \A k \in 1..Len(inlog[c]) :
        Overshoots(c, k) =>
            snaps[c][k] = [completed |-> SnapBefore(c, k).completed + 1,
                           expected |-> JInt(0), received |-> 0]

\* size 2, then chunks of 1 and 2 bytes: complete after the second chunk
C5_Witness ==
    \E c \in Conns : \E k \in 1..Len(inlog[c]) :
        /\ Overshoots(c, k)
        /\ SnapBefore(c, k).received > 0
        /\ snaps[c][k].completed = 1
        /\ snaps[c][k].received = 0

-----------------------------------------------------------------------------
(* C6 *)

\* the teardown of session c has run: once, with all of its effects
TornDown(c) ==
    /\ teardowns[c] = 1
    /\ c \notin active_connections
    /\ _get_client_id(c) \notin connection_stats
    /\ summary[c].logged

\* the teardown of session c has not run
NotTornDown(c) ==
    /\ teardowns[c] = 0
    /\ c \in active_connections
    /\ _get_client_id(c) \in connection_stats
    /\ ~summary[c].logged

\* session c is in OPEN on a transport that has closed or failed
OpenOnClosedTransport(c) == IsOpen(c) /\ transport[c] # "open"

\* C6: the teardown (leave the active set, decrement active_connections, log
\* the disconnect and the summary, leave the per-client lookup) runs exactly
\* once for every session that entered OPEN, however OPEN was left; and a
\* session in OPEN whose transport has closed or failed reaches CLOSED: it
\* does not stay in that state for ever, and leaves it only to CLOSED.
C6_TeardownExactlyOnce ==
    /\ [](\A c \in Conns :
            /\ IsOpen(c) => NotTornDown(c)
            /\ pc[c] = "done" => TornDown(c)
            /\ pc[c] = "idle" => teardowns[c] = 0)
    /\ [](server_stats.active_connections
            = server_stats.total_connections - SumOver(teardowns, Conns))
    /\ [][\A c \in Conns :
            (OpenOnClosedTransport(c) /\ ~OpenOnClosedTransport(c)') => pc'[c] = "done"]_vars
    /\ \A c \in Conns : []<>(~OpenOnClosedTransport(c))

\* one session closed after its handler raised, another after its transport
\* closed
C6_Witness ==
    \E c, d \in Conns :
        /\ pc[c] = "done" /\ exit_how[c] = "error" /\ TornDown(c)
        /\ pc[d] = "done" /\ exit_how[d] \in {"end", "closed"} /\ TornDown(d)

-----------------------------------------------------------------------------
(* C7 *)

\* the frames the client of c has sent
ClientFrames(c) == inlog[c] \o inbox[c]

\* the sessions created so far
Sessions == {c \in Conns : pc[c] # "idle"}

\* C7: when N connections have each sent exactly one message, not a hello,
\* and all have disconnected, total_connections = N, total_messages = N and
\* active_connections = 0.
C7_OneMessageEach ==
    (\A c \in Sessions :
        /\ pc[c] = "done"
        /\ Len(ClientFrames(c)) = 1
        /\ ~IsHello(ClientFrames(c)[1]))
    => /\ server_stats.total_connections = Cardinality(Sessions)
       /\ server_stats.total_messages = Cardinality(Sessions)
       /\ server_stats.active_connections = 0

C7_Witness ==
    /\ Cardinality(Sessions) >= 2
    /\ \A c \in Sessions :
        /\ pc[c] = "done"
        /\ Len(ClientFrames(c)) = 1
        /\ ~IsHello(ClientFrames(c)[1])
    /\ server_stats.total_messages = Cardinality(Sessions)

-----------------------------------------------------------------------------
(* C8 *)

\* C8: no update of the aggregate is lost: whatever the interleaving of the
\* connection tasks, total_connections is the number of sessions created, and
\* total_messages and total_bytes are the sums over the sessions of the
\* frames and bytes each counted as received.
C8_NoLostUpdate ==
    /\ server_stats.total_connections = Cardinality(Sessions)
    /\ server_stats.total_messages
         = SumOver([c \in Conns |-> stats[c].messages_received], Conns)
    /\ server_stats.total_bytes
         = SumOver([c \in Conns |-> stats[c].bytes_received], Conns)

\* two sessions, each suspended in a send with its frame counted
C8_Witness ==
    \E c, d \in Conns :
        /\ c # d
        /\ pc[c] \in SendPcs /\ stats[c].bytes_received > 0
        /\ pc[d] \in SendPcs /\ stats[d].bytes_received > 0

-----------------------------------------------------------------------------
(* C9 *)

\* C9: within one connection the replies go out in the order of the frames
\* that triggered them: every reply to frame k before any reply to frame k+1;
\* and the echo and the ack of a hello are adjacent, echo first.
C9_RepliesInFrameOrder ==
    \A c \in Conns :
        /\ \A i, j \in 1..Len(outbox[c]) :
             i < j => outbox[c][i].frame <= outbox[c][j].frame
        /\ \A i \in 1..Len(outbox[c]) :
             LET f == inlog[c][outbox[c][i].frame] IN
             IsHello(f) =>
                 \/ /\ outbox[c][i].msg = f
                    /\ i > 1 => outbox[c][i - 1].frame < outbox[c][i].frame
                    /\ i < Len(outbox[c]) =>
                         /\ outbox[c][i + 1].frame = outbox[c][i].frame
                         /\ outbox[c][i + 1].msg # f
                 \/ /\ outbox[c][i].msg # f
                    /\ i > 1
                    /\ outbox[c][i - 1] = [frame |-> outbox[c][i].frame, msg |-> f]

\* a hello answered by echo and ack, then a later frame answered
C9_Witness ==
    \E c \in Conns : \E i \in 1..Len(outbox[c]) :
        /\ i + 2 <= Len(outbox[c])
        /\ IsHello(inlog[c][outbox[c][i].frame])
        /\ outbox[c][i + 1].frame = outbox[c][i].frame
        /\ outbox[c][i + 2].frame > outbox[c][i].frame

-----------------------------------------------------------------------------
(* C10 *)

\* the handler of c raises in this step
Faults(c) == exit_how[c] # "error" /\ exit_how'[c] = "error"

\* this step leaves everything of session d as it is
Untouched(d) ==
    /\ stats'[d] = stats[d]
    /\ pc'[d] = pc[d]
    /\ message'[d] = message[d]
    /\ sending'[d] = sending[d]
    /\ transport'[d] = transport[d]
    /\ inbox'[d] = inbox[d]
    /\ outbox'[d] = outbox[d]
    /\ teardowns'[d] = teardowns[d]
    /\ summary'[d] = summary[d]
    /\ (d \in active_connections') = (d \in active_connections)
    /\ (_get_client_id(d) \in connection_stats') = (_get_client_id(d) \in connection_stats)

\* C10: a fault while one session handles a frame stays in that session: the
\* step runs that session's teardown, leaves every other session's state,
\* lifecycle and registry entries unchanged, and leaves the server accepting.
C10_FaultContained ==
    [][\A c \in Conns :
         Faults(c) =>
             /\ pc'[c] = "done"
             /\ teardowns'[c] = teardowns[c] + 1
             /\ c \notin active_connections'
             /\ _get_client_id(c) \notin connection_stats'
             /\ summary'[c].logged
             /\ server_stats'.active_connections = server_stats.active_connections - 1
             /\ server_stats'.total_connections = server_stats.total_connections
             /\ \A d \in Conns \ {c} : Untouched(d)
             /\ phase' = phase
             /\ shutdown_event' = shutdown_event]_vars

\* one session ended by a fault while the server listens and another session
\* is open and has been answered
C10_Witness ==
    \E c, d \in Conns :
        /\ exit_how[c] = "error"
        /\ phase = "listening"
        /\ IsOpen(d)
        /\ d \in active_connections
        /\ Len(outbox[d]) >= 1

-----------------------------------------------------------------------------
(* C11 *)

\* session c sends a reply in this step
Replies(c) == Len(outbox'[c]) = Len(outbox[c]) + 1

\* the reply session c sends in this step
ReplySent(c) == outbox'[c][Len(outbox'[c])].msg

\* len() of a frame: the bytes of a binary frame, the characters of a text
LenOf(f) == IF f.kind = "bytes" THEN Len(f.data) ELSE Len(f.text)

\* the step counts the reply of c in the session's sent counters
CountsReplyInSession(c) ==
    /\ stats'[c].messages_sent = stats[c].messages_sent + 1
    /\ stats'[c].bytes_sent = stats[c].bytes_sent + LenOf(ReplySent(c))

\* C11: every reply a session sends, echo or acknowledgment, adds one
\* message and the reply's length to the session's messages_sent/bytes_sent
\* and also to the aggregate's total_messages/total_bytes.
C11_ReplyCountedInSessionAndTotals ==
    [][\A c \in Conns :
         Replies(c) =>
             /\ CountsReplyInSession(c)
             /\ server_stats'.total_messages = server_stats.total_messages + 1
             /\ server_stats'.total_bytes
                  = server_stats.total_bytes + LenOf(ReplySent(c))]_vars

\* C11 as amended: every reply a session sends, echo or acknowledgment, adds
\* one message and the reply's length to the session's
\* messages_sent/bytes_sent, and leaves the aggregate as it is:
\* total_messages/total_bytes count inbound frames only.
C11_ReplyCountedInSessionOnly ==
    [][\A c \in Conns :
         Replies(c) =>
             /\ CountsReplyInSession(c)
             /\ server_stats' = server_stats]_vars

\* an echo and an acknowledgment sent and counted, the aggregate still at
\* the one frame received
C11_Witness ==
    \E c \in Conns :
        /\ Len(outbox[c]) = 2
        /\ outbox[c][2].msg # inlog[c][outbox[c][2].frame]
        /\ stats[c].messages_sent = 2
        /\ stats[c].bytes_sent = LenOf(outbox[c][1].msg) + LenOf(outbox[c][2].msg)
        /\ server_stats.total_messages = 1

-----------------------------------------------------------------------------
(* C12 *)

\* whenever the final statistics have been printed, the teardown of every
\* session had run and active_connections was 0 in what was printed
PrintedAfterTeardowns ==
    final_stats.printed =>
        /\ \A c \in Sessions : TornDown(c)
        /\ final_stats.stats.active_connections = 0
        /\ server_stats.active_connections = 0

\* C12: once the shutdown signal has been given no new session is created,
\* and the final statistics are printed only after the teardown of every
\* session has run, with active_connections = 0.
C12_NoSessionAfterSignal ==
    /\ [][shutdown_event => Sessions' = Sessions]_vars
    /\ []PrintedAfterTeardowns

\* C12 as amended: once the server has reacted to the shutdown signal
\* (start() has woken from its wait and stopped listening) no new session is
\* created, and the final statistics are printed only after the teardown of
\* every session has run, with active_connections = 0.
C12_NoSessionAfterServerStops ==
    /\ [][phase # "listening" => Sessions' = Sessions]_vars
    /\ []PrintedAfterTeardowns

\* final statistics printed after a session that the shutdown found open,
\* with a frame still unanswered, was torn down
C12_Witness ==
    /\ final_stats.printed
    /\ \E c \in Sessions :
         /\ transport[c] = "going_away"
         /\ TornDown(c)
         /\ Len(outbox[c]) < Len(inlog[c])

-----------------------------------------------------------------------------
(* C13 *)

\* the text decodes: json.loads gives a value
Decodes(f) == parse_protocol_message(f.text) # None

\* the kind of a text that decodes: its type when that is one of the known
\* types, unknown otherwise
KindOf(f) ==
    LET parsed == parse_protocol_message(f.text) IN
    IF parsed.kind = "dict"
       /\ parsed.f.type \in {JStr("hello"), JStr("binary_start"), JStr("ack"), JStr("error")}
    THEN parsed.f.type.s
    ELSE "unknown"

\* the branch of handle_text_message session c took for its k-th frame (the
\* branch does not depend on the stats)
HandledAs(c, k) == TextDispatch(NoStats, inlog[c][k]).branch

\* the handler of c raised while it handled its k-th frame
FaultedOn(c, k) == exit_how[c] = "error" /\ k = Len(inlog[c])

\* C13: a text frame is handled as opaque_text if and only if it fails to
\* decode; a text frame that decodes, a record with no fields or without a
\* known type included, is handled as its type kind or as unknown; and
\* handling a text frame never faults, the session stays in OPEN.
C13_ClassifiedByDecoding ==
    \A c \in Conns : \A k \in 1..Len(inlog[c]) :
        inlog[c][k].kind = "text" =>
            /\ HandledAs(c, k) = "opaque_text" <=> ~Decodes(inlog[c][k])
            /\ Decodes(inlog[c][k]) => HandledAs(c, k) = KindOf(inlog[c][k])
            /\ ~FaultedOn(c, k)

-----------------------------------------------------------------------------
(* C14 *)

\* bytes of the UTF-8 encoding of a text: one for each character of the
\* texts and acknowledgments here, except the two of the accented character
Utf8Len(s) == IF s = AccentText THEN Len(s) + 1 ELSE Len(s)

\* the serialized size of a frame's payload
WireLen(f) == IF f.kind = "bytes" THEN Len(f.data) ELSE Utf8Len(f.text)

RECURSIVE WireBytes(_)
\* the serialized sizes of a sequence of frames, summed
WireBytes(fs) == IF fs = <<>> THEN 0 ELSE WireLen(Head(fs)) + WireBytes(Tail(fs))

\* the replies session c has sent
RepliesOf(c) == [i \in 1..Len(outbox[c]) |-> outbox[c][i].msg]

\* C14: bytes_received is the sum of the exact byte lengths of the inbound
\* frames counted so far and bytes_sent the sum of the exact byte lengths of
\* the replies sent, for binary frames and for text frames, those with
\* characters of more than one byte included.
C14_ByteCountersAreWireBytes ==
    \A c \in Sessions :
        /\ stats[c].bytes_received = WireBytes(inlog[c])
        /\ stats[c].bytes_sent = WireBytes(RepliesOf(c))

-----------------------------------------------------------------------------
(* C15 *)

\* session c takes a frame from the transport in this step
Receives(c) == Len(inlog'[c]) = Len(inlog[c]) + 1

\* the frame session c takes in this step
FrameTaken(c) == inlog'[c][Len(inlog'[c])]

\* C15: a binary frame that arrives while current_binary_expected = 0 is
\* counted in messages_received/bytes_received and echoed unchanged, and
\* completes nothing: binary_transfers_completed is unchanged and
\* current_binary_expected stays 0.
C15_UnannouncedChunkCountedOnly ==
    /\ [][\A c \in Conns :
            (/\ Receives(c)
             /\ FrameTaken(c).kind = "bytes"
             /\ stats[c].current_binary_expected = JInt(0))
            => /\ stats'[c].messages_received = stats[c].messages_received + 1
               /\ stats'[c].bytes_received
                    = stats[c].bytes_received + Len(FrameTaken(c).data)
               /\ stats'[c].binary_transfers_completed
                    = stats[c].binary_transfers_completed
               /\ stats'[c].current_binary_expected = JInt(0)
               /\ pc'[c] = "send_echo"
               /\ sending'[c] = FrameTaken(c)]_vars
    /\ [](\A c \in Conns : \A k \in 1..Len(inlog[c]) :
            (inlog[c][k].kind = "bytes" /\ SnapBefore(c, k).expected = JInt(0)) =>
                /\ IsPrefix(RepliesTo(c, k), <<inlog[c][k]>>)
                /\ Handled(c, k) => RepliesTo(c, k) = <<inlog[c][k]>>)

\* two chunks with no transfer announced, both echoed, nothing completed
C15_Witness ==
    \E c \in Conns :
        /\ Len(inlog[c]) = 2
        /\ \A k \in 1..2 :
             /\ inlog[c][k].kind = "bytes" /\ Len(inlog[c][k].data) > 0
             /\ SnapBefore(c, k).expected = JInt(0)
             /\ Handled(c, k)
             /\ RepliesTo(c, k) = <<inlog[c][k]>>
        /\ stats[c].messages_received = 2
        /\ stats[c].binary_transfers_completed = 0
        /\ stats[c].current_binary_expected = JInt(0)

-----------------------------------------------------------------------------
(* C16 *)

\* the frame decodes to a record whose type is "binary_start"
IsAnnouncement(f) ==
    /\ f.kind = "text"
    /\ parse_protocol_message(f.text).kind = "dict"
    /\ parse_protocol_message(f.text).f.type = JStr("binary_start")

\* the size an announcement declares, 0 when it has none
DeclaredSize(f) ==
    IF parse_protocol_message(f.text).f.size = JAbsent
    THEN JInt(0)
    ELSE parse_protocol_message(f.text).f.size

\* C16: after a binary_start frame declaring size S, whatever the transfer
\* state before it, current_binary_expected is S, current_binary_received
\* is 0 and binary_transfers_completed is what it was: bytes received before
\* do not count toward the new transfer, and a transfer in progress is
\* replaced without being completed.
C16_AnnouncementRestartsTransfer ==
    \A c \in Conns : \A k \in 1..Len(inlog[c]) :
        IsAnnouncement(inlog[c][k]) =>
            snaps[c][k] = [completed |-> SnapBefore(c, k).completed,
                           expected |-> DeclaredSize(inlog[c][k]),
                           received |-> 0]

\* an announcement that found a transfer in progress with a byte received
C16_Witness ==
    \E c \in Conns : \E k \in 1..Len(inlog[c]) :
        /\ IsAnnouncement(inlog[c][k])
        /\ SnapBefore(c, k).expected = JInt(2)
        /\ SnapBefore(c, k).received = 1
        /\ snaps[c][k].expected = JInt(2)
        /\ snaps[c][k].received = 0
        /\ Handled(c, k)

-----------------------------------------------------------------------------
(* C17 *)

\* the frame is of kind hello, ack, error, unknown or opaque_text: a text
\* frame that is not an announcement
IsPlainText(f) == f.kind = "text" /\ ~IsAnnouncement(f)

\* C17: handling a frame of kind hello, ack, error, unknown or opaque_text
\* leaves current_binary_expected, current_binary_received and
\* binary_transfers_completed as they were, a transfer in progress included.
C17_PlainTextKeepsTransfer ==
    \A c \in Conns : \A k \in 1..Len(inlog[c]) :
        IsPlainText(inlog[c][k]) => snaps[c][k] = SnapBefore(c, k)

\* a hello answered between the chunks of a transfer of 2 bytes, 1 received
C17_Witness ==
    \E c \in Conns : \E k \in 1..Len(inlog[c]) :
        /\ IsHello(inlog[c][k])
        /\ Handled(c, k)
        /\ Len(RepliesTo(c, k)) = 2
        /\ SnapBefore(c, k) = [completed |-> 0, expected |-> JInt(2), received |-> 1]
        /\ snaps[c][k] = SnapBefore(c, k)

-----------------------------------------------------------------------------
(* C18 *)

\* the sessions in OPEN
OpenSessions == {c \in Conns : IsOpen(c)}

\* C18: in every state at a suspension point the counter active_connections
\* is the size of the active set, the number of entries of the per-client
\* lookup and the number of sessions in OPEN; it is never negative and never
\* above total_connections.
C18_RegistryConsistent ==
    /\ server_stats.active_connections = Cardinality(active_connections)
    /\ server_stats.active_connections = Cardinality(connection_stats)
    /\ server_stats.active_connections = Cardinality(OpenSessions)
    /\ server_stats.active_connections >= 0
    /\ server_stats.active_connections <= server_stats.total_connections

\* one session in OPEN after another was torn down
C18_Witness ==
    /\ server_stats.active_connections = 1
    /\ server_stats.total_connections = 2
    /\ \E c, d \in Conns :
         /\ IsOpen(c) /\ c \in active_connections
         /\ _get_client_id(c) \in connection_stats
         /\ pc[d] = "done" /\ teardowns[d] = 1

-----------------------------------------------------------------------------
(* C19 *)

\* C19: wherever a session is suspended or has ended, if
\* current_binary_expected > 0 then current_binary_received is below it: a
\* transfer in progress that has reached its declared size is never seen.
C19_ProgressBelowExpected ==
    \A c \in Sessions :
        ExpectedPositive(stats[c]) =>
            stats[c].current_binary_received < stats[c].current_binary_expected.n

\* a session awaiting the echo of a chunk, one byte short of a transfer of 2
C19_Witness ==
    \E c \in Sessions :
        /\ pc[c] = "send_echo"
        /\ sending[c].kind = "bytes"
        /\ stats[c].current_binary_expected = JInt(2)
        /\ stats[c].current_binary_received = 1

-----------------------------------------------------------------------------
(* C20 *)

\* replies session c has yet to count: frames counted, plus one more for
\* each hello, minus replies counted
Uncounted(c) == stats[c].messages_received + Hellos(c) - stats[c].messages_sent

\* C20: in every state of a session, after a failed send or a fault too,
\* 0 <= messages_received + hellos - messages_sent <= 2.
C20_RepliesWithinTwoOfFrames ==
    \A c \in Sessions : Uncounted(c) >= 0 /\ Uncounted(c) <= 2

\* a session ended by the failure of the echo of a hello, after it had
\* answered a frame in full
C20_Witness ==
    \E c \in Sessions :
        /\ pc[c] = "done"
        /\ SendFailed(c) /\ exit_at[c] = "send_hello"
        /\ stats[c].messages_sent >= 1
        /\ Uncounted(c) = 2

-----------------------------------------------------------------------------
(* C21 *)

\* number of binary_start frames with a positive declared size that session
\* c has received
PositiveAnnouncements(c) ==
    Cardinality({k \in 1..Len(inlog[c]) :
                   /\ IsAnnouncement(inlog[c][k])
                   /\ DeclaredSize(inlog[c][k]).t = "int"
                   /\ DeclaredSize(inlog[c][k]).n > 0})

\* 1 while an announced transfer is in progress, 0 otherwise
Pending(c) == IF ExpectedPositive(stats[c]) THEN 1 ELSE 0

\* C21: in every state of a session binary_transfers_completed is at most
\* the number of binary_start frames with a positive declared size received
\* so far; each completion uses up one announcement, so the completions and
\* the transfer in progress together are within that number, and binary
\* frames without an announcement complete nothing.
C21_CompletedWithinAnnouncements ==
    \A c \in Sessions :
        /\ stats[c].binary_transfers_completed <= PositiveAnnouncements(c)
        /\ stats[c].binary_transfers_completed + Pending(c) <= PositiveAnnouncements(c)
        /\ PositiveAnnouncements(c) = 0 => stats[c].binary_transfers_completed = 0

\* one announcement completed by its chunk, and a further chunk that
\* completed nothing
C21_Witness ==
    \E c \in Sessions :
        /\ Len(inlog[c]) = 3
        /\ IsAnnouncement(inlog[c][1])
        /\ inlog[c][2].kind = "bytes" /\ inlog[c][3].kind = "bytes"
        /\ Len(inlog[c][3].data) > 0
        /\ snaps[c][2].completed = 1
        /\ PositiveAnnouncements(c) = 1
        /\ stats[c].binary_transfers_completed = 1

====
